---------------------------- MODULE Spec2Model ----------------------------
(***************************************************************************)
(* A model of clickup_daily_to_discord.py: one run of main() as a state    *)
(* machine (configuration checks, workspace discovery, the paginated task  *)
(* fetch, the per-task window filter, the digest builder with its optional *)
(* AI summary, and the chunked webhook delivery), together with the pure   *)
(* helpers the run uses.                                                   *)
(*                                                                         *)
(* Time.  Instants are integer milliseconds counted from the model epoch   *)
(* 2024-01-01T00:00:00Z (TLC integers are 32 bit, the real epoch value     *)
(* 1704067200000 does not fit).  Python integers do not overflow, so only  *)
(* the origin moves: every comparison and every difference is unchanged.   *)
(* Asia/Bangkok has had the fixed offset +07:00 and no DST since 1920, so  *)
(* local wall-clock time is the instant plus TzOffsetMs.                   *)
(*                                                                         *)
(* Text.  Strings are TLC strings: Len, \o and SubSeq act on them as       *)
(* Python's len, + and slicing do.  The non-ASCII glyphs of the digest are *)
(* written as ASCII stand-ins with the same number of code points.         *)
(***************************************************************************)
EXTENDS Integers, Sequences, FiniteSets, TLC

VARIABLES
    pc,         \* where the run is: a label of main(), or "exit"
    env,        \* the environment main() reads with os.getenv
    now,        \* datetime.now(tz), as an instant
    win,        \* start_ms, end_ms_fetch, end_ms_other, end_ms_exam
    assignee,   \* assignee_id
    page,       \* fetch_due_tasks: page
    tasks,      \* fetch_due_tasks: tasks
    reqs,       \* the page numbers requested from GET /team/{id}/task, in order
    served,     \* the batches the upstream returned for them, in order
    merged,     \* main: merged
    digest,     \* the locals of build_discord_message and its payload
    groq,       \* requests constructed for the summary service
    parts,      \* send_discord_message: parts
    posts,      \* the webhook posts made so far: content and status, in order
    exit_code,  \* the process exit status, NoExit while the run is going
    stdout,     \* what the run printed (and the traceback of an uncaught error)
    arg,        \* the argument of a helper applied on its own
    ret         \* and its result

vars == <<pc, env, now, win, assignee, page, tasks, reqs, served, merged,
          digest, groq, parts, posts, exit_code, stdout, arg, ret>>

None == "None"
NoExit == 0 - 1

--------------------------------------------------------------------------
(* Calendar and clock *)

DayMs == 86400000
TzOffsetMs == 25200000
EndOfDayMs == 86399000

\* datetime.fromtimestamp(ms / 1000, tz): the local date (a day number, day 0
\* is 2024-01-01) and the local time of day.
fromtimestamp(ms) ==
    [date |-> (ms + TzOffsetMs) \div DayMs, tod |-> (ms + TzOffsetMs) % DayMs]

\* A local wall-clock datetime back to an instant: astimezone(utc).timestamp()*1000.
timestamp_ms(dt) == dt.date * DayMs + dt.tod - TzOffsetMs

Two(n) == IF n < 10 THEN "0" \o ToString(n) ELSE ToString(n)

\* strftime('%Y-%m-%d') for the days of January 2024 the model uses; the days
\* before the model epoch's month fall in December 2023.
strftime_ymd(dt) ==
    IF dt.date >= 0 THEN "2024-01-" \o Two(dt.date + 1)
    ELSE "2023-12-" \o Two(32 + dt.date)

\* strftime('%a'): 2024-01-01 was a Monday.
strftime_a(dt) ==
    LET names == <<"Mon", "Tue", "Wed", "Thu", "Fri", "Sat", "Sun">>
    IN  names[(dt.date % 7) + 1]

Abs(n) == IF n < 0 THEN -n ELSE n

\* A faulty variant: the due date taken in UTC instead of the run's timezone.
human_label_and_dt_utc(due_ms, now_local) ==
    LET due_dt == [date |-> due_ms \div DayMs, tod |-> due_ms % DayMs]
        delta_days == due_dt.date - now_local.date
    IN  [label |-> IF delta_days < 0 THEN "overdue (" \o ToString(Abs(delta_days)) \o "d)"
                   ELSE IF delta_days = 0 THEN "today"
                   ELSE IF delta_days = 1 THEN "tomorrow"
                   ELSE "in " \o ToString(delta_days) \o " days",
         due_dt |-> due_dt]

human_label_and_dt(due_ms, now_local) ==
    LET due_dt == fromtimestamp(due_ms)
        delta_days == due_dt.date - now_local.date
    IN  [label |-> IF delta_days < 0 THEN "overdue (" \o ToString(Abs(delta_days)) \o "d)"
                   ELSE IF delta_days = 0 THEN "today"
                   ELSE IF delta_days = 1 THEN "tomorrow"
                   ELSE "in " \o ToString(delta_days) \o " days",
         due_dt |-> due_dt]

--------------------------------------------------------------------------
(* Task records, as the task-source API returns them *)

\* due_date is a JSON value, string-encoded as the API sends it: a string of
\* digits ("str", its integer in v), null or missing ("null"), or a string
\* int() rejects ("bad").  tags is the list of
\* the tags' names.  status and url are absent from the records of the model,
\* so a block renders "unknown" and the link derived from the id.
Due(ms) == [k |-> "str", v |-> ms]
NullDue == [k |-> "null", v |-> 0]
BadDue == [k |-> "bad", v |-> 0]

Task(id, name, due, tags) == [id |-> id, name |-> name, due_date |-> due, tags |-> tags]

\* not t.get("due_date")
NoDueDate(t) == t.due_date.k = "null"

\* int(t["due_date"]) raises unless the string is an integer
IntRaises(t) == t.due_date.k # "str"
int_due(t) == t.due_date.v

LowerChar(c) ==
    CASE c = "A" -> "a" [] c = "B" -> "b" [] c = "C" -> "c" [] c = "D" -> "d"
      [] c = "E" -> "e" [] c = "F" -> "f" [] c = "G" -> "g" [] c = "H" -> "h"
      [] c = "I" -> "i" [] c = "J" -> "j" [] c = "K" -> "k" [] c = "L" -> "l"
      [] c = "M" -> "m" [] c = "N" -> "n" [] c = "O" -> "o" [] c = "P" -> "p"
      [] c = "Q" -> "q" [] c = "R" -> "r" [] c = "S" -> "s" [] c = "T" -> "t"
      [] c = "U" -> "u" [] c = "V" -> "v" [] c = "W" -> "w" [] c = "X" -> "x"
      [] c = "Y" -> "y" [] c = "Z" -> "z" [] OTHER -> c

RECURSIVE lower(_)
lower(s) == IF s = "" THEN "" ELSE LowerChar(SubSeq(s, 1, 1)) \o lower(SubSeq(s, 2, Len(s)))

\* A faulty variant: the tag compared as written, without lower().
is_exam_task_cased(t) == \E i \in 1..Len(t.tags) : t.tags[i] = "exam"

_is_exam_task(t) == \E i \in 1..Len(t.tags) : lower(t.tags[i]) = "exam"

_within(due_ms, end_ms) == due_ms <= end_ms

--------------------------------------------------------------------------
(* fetch_due_tasks: one iteration of its loop per page requested *)

page_limit == 100

Filler == Task("f", "filler", NullDue, <<>>)

\* A page of exactly page_limit records: the given ones, then records with no
\* due date.
FullPage(recs) == recs \o [i \in 1..(page_limit - Len(recs)) |-> Filler]

Ok(batch) == [kind |-> "ok", batch |-> batch]
HttpError == [kind |-> "http", batch |-> <<>>]
TransportError == [kind |-> "transport", batch |-> <<>>]

\* The records of a batch the loop at lines 65-73 appends, in batch order.
KeepDue(batch, lo, hi) ==
    LET Kept(t) ==
            IF NoDueDate(t) THEN FALSE
            ELSE IF IntRaises(t) THEN FALSE
            ELSE lo <= int_due(t) /\ int_due(t) <= hi
    IN  SelectSeq(batch, Kept)

\* A faulty variant: a malformed due date fails the fetch instead of being skipped.
FetchIterStrict(resp, acc, lo, hi) ==
    IF resp.kind = "http" THEN [outcome |-> "HTTPError", tasks |-> acc]
    ELSE IF resp.kind = "transport" THEN [outcome |-> "Exception", tasks |-> acc]
    ELSE IF resp.batch = <<>> THEN [outcome |-> "break", tasks |-> acc]
    ELSE IF \E i \in 1..Len(resp.batch) :
                ~NoDueDate(resp.batch[i]) /\ IntRaises(resp.batch[i])
         THEN [outcome |-> "Exception", tasks |-> acc]
    ELSE [outcome |-> IF Len(resp.batch) < page_limit THEN "break" ELSE "continue",
          tasks |-> acc \o KeepDue(resp.batch, lo, hi)]

\* A faulty variant: a failed request ends the loop with the tasks collected so far.
FetchIterPartial(resp, acc, lo, hi) ==
    IF resp.kind # "ok" \/ resp.batch = <<>> THEN [outcome |-> "break", tasks |-> acc]
    ELSE [outcome |-> IF Len(resp.batch) < page_limit THEN "break" ELSE "continue",
          tasks |-> acc \o KeepDue(resp.batch, lo, hi)]

\* Lines 50-77 for one response: what the iteration does to tasks, and whether
\* the loop goes on, ends, or the call raises.
FetchIter(resp, acc, lo, hi) ==
    IF resp.kind = "http" THEN [outcome |-> "HTTPError", tasks |-> acc]
    ELSE IF resp.kind = "transport" THEN [outcome |-> "Exception", tasks |-> acc]
    ELSE IF resp.batch = <<>> THEN [outcome |-> "break", tasks |-> acc]
    ELSE [outcome |-> IF Len(resp.batch) < page_limit THEN "break" ELSE "continue",
          tasks |-> acc \o KeepDue(resp.batch, lo, hi)]

--------------------------------------------------------------------------
(* The digest: _format_task_block, ai_summarize_tasks, build_discord_message *)

\* ASCII stand-ins, one character per code point of the glyph they replace.
IconExam == "E"
IconWork == "W"
Bullet == "*"
Calendar == "D"
Robot == "R"
Books == "B"
Spiral == "SV"
Dash == "-"

Bar == "==================================="
Rule == "--------------------------------------"

RECURSIVE Join(_, _)
\* sep.join(strs)
Join(sep, strs) ==
    IF strs = <<>> THEN ""
    ELSE IF Len(strs) = 1 THEN strs[1]
    ELSE strs[1] \o sep \o Join(sep, Tail(strs))

_format_task_block(t, now_local) ==
    LET r == human_label_and_dt(int_due(t), now_local)
        weekday == strftime_a(r.due_dt)
        url == "https://app.clickup.com/t/" \o t.id
        status == "unknown"
        tags_str == IF t.tags # <<>>
                    THEN Join(" ", [i \in 1..Len(t.tags) |-> "#" \o t.tags[i]])
                    ELSE "-"
        icon == IF _is_exam_task(t) THEN IconExam ELSE IconWork
    IN  icon \o " " \o t.name \o "\n"
        \o "   " \o Bullet \o " Status: " \o status \o "\n"
        \o "   " \o Bullet \o " Tags: " \o tags_str \o "\n"
        \o "   " \o Bullet \o " Due: " \o r.label \o " (" \o strftime_ymd(r.due_dt)
        \o " " \o weekday \o ")\n"
        \o "   " \o Bullet \o " Link: <" \o url \o ">"

\* What the summary service does when it is asked: the groq package cannot be
\* imported, the request raises, or the request returns a text (stripped).
ImportFails == [kind |-> "import", text |-> ""]
RequestFails == [kind |-> "api", text |-> ""]
Replies(text) == [kind |-> "text", text |-> text]

Min(a, b) == IF a < b THEN a ELSE b

\* A faulty variant: a failure of the summary service is not caught.
ai_summarize_tasks_uncaught(ts, key, service) ==
    IF ~key \/ ts = <<>> THEN [value |-> None, requests |-> <<>>, raised |-> FALSE]
    ELSE IF service.kind = "import" THEN [value |-> None, requests |-> <<>>, raised |-> TRUE]
    ELSE IF service.kind = "api"
         THEN [value |-> None, requests |-> <<Min(Len(ts), 40)>>, raised |-> TRUE]
    ELSE [value |-> service.text, requests |-> <<Min(Len(ts), 40)>>, raised |-> FALSE]

\* ai_summarize_tasks: value is the summary or None, requests the requests it
\* made of the service (each with the number of tasks in its snapshot), raised
\* whether an exception left the function.
ai_summarize_tasks(ts, key, service) ==
    IF ~key \/ ts = <<>> THEN [value |-> None, requests |-> <<>>, raised |-> FALSE]
    ELSE IF service.kind = "import" THEN [value |-> None, requests |-> <<>>, raised |-> FALSE]
    ELSE IF service.kind = "api"
         THEN [value |-> None, requests |-> <<Min(Len(ts), 40)>>, raised |-> FALSE]
    ELSE [value |-> service.text, requests |-> <<Min(Len(ts), 40)>>, raised |-> FALSE]

RECURSIVE Insert(_, _)
Insert(t, sorted) ==
    IF sorted = <<>> THEN <<t>>
    ELSE IF int_due(t) < int_due(Head(sorted)) THEN <<t>> \o sorted
    ELSE <<Head(sorted)>> \o Insert(t, Tail(sorted))

RECURSIVE SortByDue(_)
\* sorted(tasks, key=lambda t: int(t["due_date"])): stable, ascending.
SortByDue(ts) ==
    IF ts = <<>> THEN <<>>
    ELSE Insert(ts[Len(ts)], SortByDue(SubSeq(ts, 1, Len(ts) - 1)))

RECURSIVE Filter(_, _)
\* [t for t in ts if _is_exam_task(t) = want]
Filter(ts, want) ==
    IF ts = <<>> THEN <<>>
    ELSE IF _is_exam_task(Head(ts)) = want THEN <<Head(ts)>> \o Filter(Tail(ts), want)
    ELSE Filter(Tail(ts), want)

NoDigest ==
    [content |-> "", exams |-> <<>>, others |-> <<>>, total_count |-> 0, ai_summary |-> None]

\* build_discord_message: the payload's content, with the locals it is made of.
\* raised: the summarizer's exception, which the builder does not catch.
build_discord_message(ts, now_local, days_ahead, exam_days_ahead, key, service) ==
    IF ts = <<>>
    THEN [digest |-> [NoDigest EXCEPT !.content =
                          Bar \o "\n" \o Calendar \o " Daily Check (" \o strftime_ymd(now_local)
                          \o ") (0 works)\n" \o "- No tasks due soon.\n" \o Bar],
          requests |-> <<>>, raised |-> FALSE]
    ELSE LET tasks_sorted == SortByDue(ts)
             exams == Filter(tasks_sorted, TRUE)
             others == Filter(tasks_sorted, FALSE)
             exam_blocks == [i \in 1..Len(exams) |-> _format_task_block(exams[i], now_local)]
             other_blocks == [i \in 1..Len(others) |-> _format_task_block(others[i], now_local)]
             total_count == Len(exam_blocks) + Len(other_blocks)
             ai == ai_summarize_tasks(tasks_sorted, key, service)
             ai_summary == ai.value
             sections ==
                 (IF ai_summary # None /\ ai_summary # ""
                  THEN <<Robot \o " **AI Summary**", ai_summary, Rule>> ELSE <<>>)
                 \o << Books \o " Upcoming Exams (next " \o ToString(exam_days_ahead)
                         \o " days) " \o Dash \o " [" \o ToString(Len(exam_blocks)) \o " exams]",
                       IF exam_blocks # <<>> THEN Join("\n\n", exam_blocks)
                       ELSE "   " \o Bullet \o " None",
                       Rule,
                       Spiral \o " Work due Soon (next " \o ToString(days_ahead)
                         \o " days) " \o Dash \o " [" \o ToString(Len(other_blocks)) \o " works]",
                       IF other_blocks # <<>> THEN Join("\n\n", other_blocks)
                       ELSE "   " \o Bullet \o " None" >>
             body == Join("\n", sections)
         IN  [digest |-> [content |-> Bar \o "\n" \o Calendar \o " Daily Check ("
                                      \o strftime_ymd(now_local) \o ") ("
                                      \o ToString(total_count) \o " works)\n\n"
                                      \o body \o "\n" \o Bar,
                          exams |-> exams, others |-> others,
                          total_count |-> total_count, ai_summary |-> ai_summary],
              requests |-> ai.requests, raised |-> ai.raised]

--------------------------------------------------------------------------
(* send_discord_message *)

MAX_LEN == 1900

\* A faulty variant: the slices overlap by one character.
SliceOverlapping(text, i) == SubSeq(text, IF i = 0 THEN 1 ELSE i, Min(i + MAX_LEN, Len(text)))

\* text[i:i+MAX_LEN], i counted from 0 as in Python.
Slice(text, i) == SubSeq(text, i + 1, Min(i + MAX_LEN, Len(text)))

RECURSIVE range(_, _, _)
\* range(start, stop, step), as a sequence
range(start, stop, step) ==
    IF start >= stop THEN <<>> ELSE <<start>> \o range(start + step, stop, step)

\* [text[i:i+MAX_LEN] for i in range(0, len(text), MAX_LEN)]
Chunks(text) ==
    LET starts == range(0, Len(text), MAX_LEN)
    IN  [k \in 1..Len(starts) |-> Slice(text, starts[k])]

\* A faulty variant: a redirect status counts as delivered.
Is2xxOr3xx(status) == 200 <= status /\ status < 400

\* 200 <= resp.status_code < 300
Is2xx(status) == 200 <= status /\ status < 300

--------------------------------------------------------------------------
(* main *)

Say(line) == stdout' = Append(stdout, line)

\* sys.exit(code), and the interpreter's exit after an uncaught exception
\* (traceback, status 1).
Exit(code) == exit_code' = code /\ pc' = "exit"
Uncaught(frame) == Say("Traceback (most recent call last): " \o frame) /\ Exit(1)

\* A faulty variant: the fetch window opens a day before today's midnight.
WindowsFromNow(now_ms, days_ahead, exam_days_ahead) ==
    LET now_local == fromtimestamp(now_ms)
        start_local == [date |-> now_local.date, tod |-> 0]
        end_local_other == [date |-> start_local.date + days_ahead, tod |-> EndOfDayMs]
        end_local_exam == [date |-> start_local.date + exam_days_ahead, tod |-> EndOfDayMs]
    IN  [start_ms |-> timestamp_ms(start_local) - DayMs,
         end_ms_fetch |-> timestamp_ms(end_local_exam),
         end_ms_other |-> timestamp_ms(end_local_other),
         end_ms_exam |-> timestamp_ms(end_local_exam)]

\* Lines 272-283: today's midnight, the two window ends at 23:59:59 of their
\* last day, and the fetch window, which is the exam window.
Windows(now_ms, days_ahead, exam_days_ahead) ==
    LET now_local == fromtimestamp(now_ms)
        start_local == [date |-> now_local.date, tod |-> 0]
        end_local_other == [date |-> start_local.date + days_ahead, tod |-> EndOfDayMs]
        end_local_exam == [date |-> start_local.date + exam_days_ahead, tod |-> EndOfDayMs]
        end_local_fetch == end_local_exam
    IN  [start_ms |-> timestamp_ms(start_local),
         end_ms_fetch |-> timestamp_ms(end_local_fetch),
         end_ms_other |-> timestamp_ms(end_local_other),
         end_ms_exam |-> timestamp_ms(end_local_exam)]

NoWindows == [start_ms |-> 0, end_ms_fetch |-> 0, end_ms_other |-> 0, end_ms_exam |-> 0]

RECURSIVE MergeTasks(_, _)
\* Lines 302-313.
MergeTasks(all_tasks, w) ==
    IF all_tasks = <<>> THEN <<>>
    ELSE LET t == Head(all_tasks)
             rest == MergeTasks(Tail(all_tasks), w)
         IN  IF IntRaises(t) THEN rest
             ELSE IF _is_exam_task(t)
                  THEN (IF _within(int_due(t), w.end_ms_exam) THEN <<t>> \o rest ELSE rest)
             ELSE IF _within(int_due(t), w.end_ms_other) THEN <<t>> \o rest
             ELSE rest

\* Lines 243-283: the configuration, then the windows.
Start ==
    /\ pc = "start"
    /\ IF ~env.token \/ ~env.webhook
       THEN /\ Say("ERROR: Please set CLICKUP_TOKEN and DISCORD_WEBHOOK_URL (in environment or .env).")
            /\ Exit(2)
            /\ UNCHANGED win
       ELSE IF ~env.team_id
       THEN /\ pc' = "get_teams"
            /\ UNCHANGED <<win, stdout, exit_code>>
       ELSE /\ win' = Windows(now, env.days_ahead, env.exam_days_ahead)
            /\ pc' = IF env.only_me THEN "get_my_user_id" ELSE "fetch"
            /\ UNCHANGED <<stdout, exit_code>>
    /\ UNCHANGED <<env, now, assignee, page, tasks, reqs, served, merged, digest,
                   groq, parts, posts, arg, ret>>

\* What GET /team answers: an error status, no answer, or a list of workspaces.
TeamsResponses == {"http", "transport", "none", "some"}

\* Lines 259-267: no CLICKUP_TEAM_ID; get_teams is called outside any try.
GetTeams ==
    /\ pc = "get_teams"
    /\ \E resp \in TeamsResponses :
         IF resp \in {"http", "transport"} THEN Uncaught("get_teams")
         ELSE IF resp = "none"
         THEN Say("ERROR: No Workspaces (teams) found for your token.") /\ Exit(2)
         ELSE Say("Please set CLICKUP_TEAM_ID to one of the following IDs and rerun:") /\ Exit(1)
    /\ UNCHANGED <<env, now, win, assignee, page, tasks, reqs, served, merged, digest,
                   groq, parts, posts, arg, ret>>

\* Lines 285-290: ONLY_ASSIGNED_TO_ME; a failure of GET /user is only a warning.
GetMyUserId ==
    /\ pc = "get_my_user_id"
    /\ \E ok \in BOOLEAN :
         IF ok THEN assignee' = "u1" /\ UNCHANGED stdout
         ELSE assignee' = None /\ Say("WARNING: Couldn't get your user id, continuing without assignee filter.")
    /\ pc' = "fetch"
    /\ UNCHANGED <<env, now, win, page, tasks, reqs, served, merged, digest,
                   groq, parts, posts, exit_code, arg, ret>>

\* How a call of fetch_due_tasks on its own ends: with its list, or raising.
NotReturned == [tasks |-> <<>>, raised |-> None]
Returned(ts) == [tasks |-> ts, raised |-> None]
Raised(exception) == [tasks |-> <<>>, raised |-> exception]

\* One request of fetch_due_tasks (lines 49-79) and, when it is main that
\* called, the handlers of lines 293-300 around it.  Responses[p] is what the
\* upstream may answer the request for page p.
FetchPage(Responses, caller) ==
    /\ pc = "fetch"
    /\ \E resp \in Responses[page] :
         LET it == FetchIter(resp, tasks, win.start_ms, win.end_ms_fetch)
         IN  /\ reqs' = Append(reqs, page)
             /\ served' = Append(served, resp)
             /\ CASE it.outcome = "continue" ->
                       /\ tasks' = it.tasks
                       /\ page' = page + 1
                       /\ UNCHANGED <<pc, stdout, exit_code, ret>>
                  [] it.outcome = "break" ->
                       /\ tasks' = it.tasks
                       /\ pc' = IF caller = "main" THEN "classify" ELSE "returned"
                       /\ ret' = IF caller = "main" THEN ret ELSE Returned(it.tasks)
                       /\ UNCHANGED <<page, stdout, exit_code>>
                  [] OTHER ->
                       /\ tasks' = <<>>
                       /\ IF caller = "main"
                          THEN /\ Say(IF it.outcome = "HTTPError" THEN "HTTP error from ClickUp:"
                                      ELSE "Unexpected error fetching tasks:")
                               /\ Exit(3)
                               /\ UNCHANGED ret
                          ELSE /\ pc' = "raised"
                               /\ ret' = Raised(it.outcome)
                               /\ UNCHANGED <<stdout, exit_code>>
                       /\ UNCHANGED page
    /\ UNCHANGED <<env, now, win, assignee, merged, digest, groq, parts, posts, arg>>

\* Lines 302-313.
Classify ==
    /\ pc = "classify"
    /\ merged' = MergeTasks(tasks, win)
    /\ pc' = "build"
    /\ UNCHANGED <<env, now, win, assignee, page, tasks, reqs, served, digest,
                   groq, parts, posts, exit_code, stdout, arg, ret>>

\* Line 316.
Build(Services) ==
    /\ pc = "build"
    /\ \E service \in Services :
         LET b == build_discord_message(merged, fromtimestamp(now), env.days_ahead,
                                        env.exam_days_ahead, env.groq_key, service)
         IN  /\ groq' = groq \o b.requests
             /\ IF b.raised
                THEN Uncaught("ai_summarize_tasks") /\ UNCHANGED digest
                ELSE /\ digest' = b.digest
                     /\ pc' = "send"
                     /\ UNCHANGED <<stdout, exit_code>>
    /\ UNCHANGED <<env, now, win, assignee, page, tasks, reqs, served, merged,
                   parts, posts, arg, ret>>

\* Lines 233-234.
SendSplit ==
    /\ pc = "send"
    /\ parts' = Chunks(digest.content)
    /\ pc' = "post"
    /\ UNCHANGED <<env, now, win, assignee, page, tasks, reqs, served, merged,
                   digest, groq, posts, exit_code, stdout, arg, ret>>

\* What the webhook answers a post: a status, or nothing (requests.post raises).
NoResponse == 0 - 1

\* Lines 235-239, one part.
Post(Statuses) ==
    /\ pc = "post"
    /\ Len(posts) < Len(parts)
    /\ \E status \in Statuses :
         /\ posts' = Append(posts, [content |-> parts[Len(posts) + 1], status |-> status])
         /\ IF status = NoResponse THEN Uncaught("send_discord_message")
            ELSE IF ~Is2xx(status) THEN Say("Discord webhook failed:") /\ Exit(4)
            ELSE UNCHANGED <<pc, stdout, exit_code>>
    /\ UNCHANGED <<env, now, win, assignee, page, tasks, reqs, served, merged,
                   digest, groq, parts, arg, ret>>

\* Lines 317-318: every part was posted; main returns and the process exits 0.
SendDone ==
    /\ pc = "post"
    /\ Len(posts) = Len(parts)
    /\ Say("Sent " \o ToString(Len(merged)) \o " task(s) to Discord.")
    /\ Exit(0)
    /\ UNCHANGED <<env, now, win, assignee, page, tasks, reqs, served, merged,
                   digest, groq, parts, posts, arg, ret>>

--------------------------------------------------------------------------
(* The runs checked *)

\* Bounds of the model.
MaxFullPages == 2
MaxDaysAhead == 2
MaxChunks == 3

\* os.getenv("DAYS_AHEAD", "7"), os.getenv("EXAM_DAYS_AHEAD", "14")
DAYS_AHEAD_DEFAULT == 7
EXAM_DAYS_AHEAD_DEFAULT == 14

RECURSIVE Rep(_, _)
\* s * n
Rep(s, n) ==
    IF n = 0 THEN ""
    ELSE IF n % 2 = 1 THEN s \o Rep(s, n - 1)
    ELSE LET h == Rep(s, n \div 2) IN h \o h

\* The local wall-clock time of day d (day 0 is 2024-01-01), as an instant.
At(d, tod) == timestamp_ms([date |-> d, tod |-> tod])
Noon == 12 * 3600000
LateEvening == 23 * 3600000 + 30 * 60000

InitRest ==
    /\ win = NoWindows
    /\ assignee = None
    /\ page = 0
    /\ tasks = <<>>
    /\ reqs = <<>>
    /\ served = <<>>
    /\ merged = <<>>
    /\ digest = NoDigest
    /\ groq = <<>>
    /\ parts = <<>>
    /\ posts = <<>>
    /\ exit_code = NoExit
    /\ stdout = <<>>
    /\ arg = None
    /\ ret = None

(* Spec: a run of main() in any environment, against an upstream, a summary
   service and a webhook that may fail. *)

Envs ==
    [token : BOOLEAN, webhook : BOOLEAN, team_id : BOOLEAN, only_me : BOOLEAN,
     groq_key : BOOLEAN, days_ahead : {DAYS_AHEAD_DEFAULT},
     exam_days_ahead : {EXAM_DAYS_AHEAD_DEFAULT}]

Nows == {At(1, 0), At(1, LateEvening)}

MainRecords ==
    { Task("a", "Essay", Due(At(3, Noon)), <<"hw">>),
      Task("b", "Finals", Due(At(10, Noon)), <<"Exam">>),
      Task("c", "Report", Due(At(10, Noon)), <<>>) }

MainResponses(p) ==
    {HttpError, TransportError, Ok(<<>>)}
    \cup {Ok(<<r>>) : r \in MainRecords}
    \cup (IF p < MaxFullPages THEN {Ok(FullPage(<<r>>)) : r \in MainRecords} ELSE {})

MainServices ==
    {ImportFails, RequestFails, Replies(""), Replies("- Finals first. Keep going!"),
     Replies(Rep("- study. ", 200))}

MainStatuses == {200, 299, 199, 300, 500, NoResponse}

Init ==
    /\ pc = "start"
    /\ env \in Envs
    /\ now \in Nows
    /\ InitRest

Next ==
    \/ Start
    \/ GetTeams
    \/ GetMyUserId
    \/ FetchPage([p \in 0..MaxFullPages |-> MainResponses(p)], "main")
    \/ Classify
    \/ Build(MainServices)
    \/ SendSplit
    \/ Post(MainStatuses)
    \/ SendDone

Spec == Init /\ [][Next]_vars

(* SpecWindows: runs of main() with a complete configuration and services
   that answer, over every pair of day counts up to MaxDaysAhead and tasks due
   at the edges of every window. *)

DayCounts == 0..MaxDaysAhead

WindowEnvs ==
    [token : {TRUE}, webhook : {TRUE}, team_id : {TRUE}, only_me : {FALSE},
     groq_key : {FALSE}, days_ahead : DayCounts, exam_days_ahead : DayCounts]

\* Due instants: the last millisecond of yesterday, today's midnight and noon,
\* and 23:59:59.000 and 23:59:59.001 of every day a window can end on.
WindowDues ==
    {At(1, 0) - 1, At(1, 0), At(1, Noon)}
    \cup {At(1 + d, EndOfDayMs) : d \in DayCounts}
    \cup {At(1 + d, EndOfDayMs) + 1 : d \in DayCounts}

TagLists == {<<>>, <<"exam">>, <<"hw", "Exam">>, <<"exams">>}

WindowRecords ==
    {Task("t", "Task", Due(d), tg) : d \in WindowDues, tg \in TagLists}
    \cup {Task("n", "Undated", NullDue, <<"exam">>), Task("m", "Malformed", BadDue, <<"EXAM">>)}

WindowFullRecords ==
    { Task("p", "Quiz", Due(At(2, EndOfDayMs)), <<"EXAM">>),
      Task("q", "Notes", Due(At(2, EndOfDayMs)), <<>>) }

WindowResponses(p) ==
    {Ok(<<>>)}
    \cup {Ok(<<r>>) : r \in WindowRecords}
    \cup (IF p < MaxFullPages THEN {Ok(FullPage(<<r>>)) : r \in WindowFullRecords} ELSE {})

InitWindows ==
    /\ pc = "start"
    /\ env \in WindowEnvs
    /\ now \in Nows
    /\ InitRest

NextWindows ==
    \/ Start
    \/ FetchPage([p \in 0..MaxFullPages |-> WindowResponses(p)], "main")
    \/ Classify
    \/ Build({ImportFails})
    \/ SendSplit
    \/ Post({204})
    \/ SendDone

SpecWindows == InitWindows /\ [][NextWindows]_vars

(* SpecFetch: fetch_due_tasks called on its own, for a few windows; the
   upstream returns a page shorter than page_limit at page MaxFullPages at
   the latest. *)

FetchWindows ==
    { [NoWindows EXCEPT !.start_ms = 100, !.end_ms_fetch = 200],
      [NoWindows EXCEPT !.start_ms = 100, !.end_ms_fetch = 100] }

FetchBatches ==
    { <<>>,
      <<Task("r1", "r1", Due(99), <<>>)>>,
      <<Task("r2", "r2", Due(100), <<>>)>>,
      <<Task("r3", "r3", Due(200), <<>>)>>,
      <<Task("r4", "r4", Due(201), <<>>)>>,
      <<Task("r5", "r5", BadDue, <<>>)>>,
      <<Task("r3", "r3", Due(200), <<>>), Task("r6", "r6", NullDue, <<>>),
        Task("r2", "r2", Due(100), <<>>)>>,
      <<Task("r5", "r5", BadDue, <<>>), Task("r7", "r7", Due(150), <<>>)>> }

FetchResponses(p) ==
    {HttpError, TransportError}
    \cup {Ok(b) : b \in FetchBatches}
    \cup (IF p < MaxFullPages THEN {Ok(FullPage(b)) : b \in FetchBatches} ELSE {})

InitFetch ==
    /\ pc = "fetch"
    /\ env = [token |-> TRUE, webhook |-> TRUE, team_id |-> TRUE, only_me |-> FALSE,
              groq_key |-> FALSE, days_ahead |-> DAYS_AHEAD_DEFAULT,
              exam_days_ahead |-> EXAM_DAYS_AHEAD_DEFAULT]
    /\ now = At(1, 0)
    /\ win \in FetchWindows
    /\ assignee = None
    /\ page = 0
    /\ tasks = <<>>
    /\ reqs = <<>>
    /\ served = <<>>
    /\ merged = <<>>
    /\ digest = NoDigest
    /\ groq = <<>>
    /\ parts = <<>>
    /\ posts = <<>>
    /\ exit_code = NoExit
    /\ stdout = <<>>
    /\ arg = None
    /\ ret = NotReturned

NextFetch == FetchPage([p \in 0..MaxFullPages |-> FetchResponses(p)], "fetch_due_tasks")

\* The loop is sequential code: while it has a next request to make it makes it.
SpecFetch == InitFetch /\ [][NextFetch]_vars /\ WF_vars(NextFetch)

(* SpecSend: send_discord_message, and the end of main() after it, on texts
   of up to MaxChunks chunks. *)

SendLengths ==
    {q * MAX_LEN + r : q \in 0..(MaxChunks - 1), r \in {0, 1, 700, 1899}}
    \cup {MaxChunks * MAX_LEN}

TextOfLen(n) == SubSeq(Rep("abcdefg", (n \div 7) + 1), 1, n)

SendStatuses == {200, 299, 199, 300, 500, NoResponse}

InitSend ==
    /\ pc = "send"
    /\ env = [token |-> TRUE, webhook |-> TRUE, team_id |-> TRUE, only_me |-> FALSE,
              groq_key |-> FALSE, days_ahead |-> DAYS_AHEAD_DEFAULT,
              exam_days_ahead |-> EXAM_DAYS_AHEAD_DEFAULT]
    /\ now = At(1, 0)
    /\ \E n \in SendLengths : digest = [NoDigest EXCEPT !.content = TextOfLen(n)]
    /\ win = NoWindows
    /\ assignee = None
    /\ page = 0
    /\ tasks = <<>>
    /\ reqs = <<>>
    /\ served = <<>>
    /\ merged = <<>>
    /\ groq = <<>>
    /\ parts = <<>>
    /\ posts = <<>>
    /\ exit_code = NoExit
    /\ stdout = <<>>
    /\ arg = None
    /\ ret = None

NextSend ==
    \/ SendSplit
    \/ Post(SendStatuses)
    \/ SendDone

SpecSend == InitSend /\ [][NextSend]_vars

(* SpecLabel: human_label_and_dt applied to a due instant and a now. *)

LabelNows == {At(d, tod) : d \in {2, 3}, tod \in {0, Noon, LateEvening, EndOfDayMs + 999}}

LabelDues ==
    {At(d, tod) : d \in 0..8, tod \in {0, 3600000, Noon, LateEvening, EndOfDayMs + 999}}

InitLabel ==
    /\ pc = "call"
    /\ \E n \in LabelNows, d \in LabelDues : arg = [due_ms |-> d, now_ms |-> n]
    /\ env = [token |-> TRUE, webhook |-> TRUE, team_id |-> TRUE, only_me |-> FALSE,
              groq_key |-> FALSE, days_ahead |-> DAYS_AHEAD_DEFAULT,
              exam_days_ahead |-> EXAM_DAYS_AHEAD_DEFAULT]
    /\ now = arg.now_ms
    /\ win = NoWindows
    /\ assignee = None
    /\ page = 0
    /\ tasks = <<>>
    /\ reqs = <<>>
    /\ served = <<>>
    /\ merged = <<>>
    /\ digest = NoDigest
    /\ groq = <<>>
    /\ parts = <<>>
    /\ posts = <<>>
    /\ exit_code = NoExit
    /\ stdout = <<>>
    /\ ret = None

CallLabel ==
    /\ pc = "call"
    /\ ret' = human_label_and_dt(arg.due_ms, fromtimestamp(arg.now_ms))
    /\ pc' = "returned"
    /\ UNCHANGED <<env, now, win, assignee, page, tasks, reqs, served, merged,
                   digest, groq, parts, posts, exit_code, stdout, arg>>

NextLabel == CallLabel

SpecLabel == InitLabel /\ [][NextLabel]_vars

--------------------------------------------------------------------------
(* The properties *)

\* The local calendar day and the local time of day of an instant.
CalendarDay(ms) == (ms + TzOffsetMs) \div DayMs
TimeOfDay(ms) == (ms + TzOffsetMs) % DayMs

Today == CalendarDay(now)

\* [start_of_day(now), end_of_day(now + n days)], both ends included; a day
\* ends at 23:59:59.
InWindow(due, n) ==
    LET d == CalendarDay(due)
    IN  /\ d >= Today
        /\ \/ d < Today + n
           \/ d = Today + n /\ TimeOfDay(due) <= 86399000

ServedRecords ==
    {served[i].batch[j] : <<i, j>> \in
        {x \in (1..Len(served)) \X (1..page_limit) : x[2] <= Len(served[x[1]].batch)}}

HasExamTag(t) == \E i \in 1..Len(t.tags) : t.tags[i] \in {"exam", "Exam", "EXAM"}
ValidDue(t) == t.due_date.k = "str"
InSection(t, section) == \E i \in 1..Len(section) : section[i] = t
DigestBuilt == pc \in {"send", "post"} \/ (pc = "exit" /\ posts # <<>>)

LabelOfDelta(delta) ==
    IF delta < 0 THEN "overdue (" \o ToString(0 - delta) \o "d)"
    ELSE IF delta = 0 THEN "today"
    ELSE IF delta = 1 THEN "tomorrow"
    ELSE "in " \o ToString(delta) \o " days"

\* C1: once the digest is built, a task the upstream served with a tag
\* spelling "exam" in any case is in the exam section iff its due date is
\* valid and lies in [start of today, end of today + EXAM_DAYS_AHEAD], and it
\* is never in the regular section.
C1_ExamTaskInUrgentWindow ==
    DigestBuilt =>
        \A t \in ServedRecords :
            HasExamTag(t) =>
                /\ InSection(t, digest.exams)
                     <=> (ValidDue(t) /\ InWindow(t.due_date.v, env.exam_days_ahead))
                /\ ~InSection(t, digest.others)

\* C1 witness: a delivered digest whose exam section holds a task tagged
\* "Exam" that is due after the regular window's end.
C1_Witness ==
    /\ pc = "exit" /\ exit_code = 0
    /\ \E t \in ServedRecords :
         /\ t.tags = <<"hw", "Exam">>
         /\ ValidDue(t)
         /\ ~InWindow(t.due_date.v, env.days_ahead)
         /\ InSection(t, digest.exams)

\* C2: once the digest is built, a served task with a valid due date and no
\* exam tag is in the regular section iff its due date lies in
\* [start of today, end of today + DAYS_AHEAD], and never in the exam section,
\* for every pair of day counts.
C2_RegularTaskInRegularWindow ==
    DigestBuilt =>
        \A t \in ServedRecords :
            (ValidDue(t) /\ ~HasExamTag(t)) =>
                /\ InSection(t, digest.others) <=> InWindow(t.due_date.v, env.days_ahead)
                /\ ~InSection(t, digest.exams)

StartsWith(text, word) == Len(text) >= Len(word) /\ SubSeq(text, 1, Len(word)) = word

Contains(text, word) ==
    \E i \in 1..(Len(text) - Len(word) + 1) : SubSeq(text, i, i + Len(word) - 1) = word

\* C10: every task of a built digest is due at or after today's local
\* midnight, so none is due on a day before today, none is labelled
\* "overdue (Xd)", and the text handed to the webhook holds no such label.
C10_NoTaskBeforeToday ==
    /\ DigestBuilt =>
         \A t \in ServedRecords :
             (InSection(t, digest.exams) \/ InSection(t, digest.others)) =>
                 /\ t.due_date.v >= Today * DayMs - TzOffsetMs
                 /\ CalendarDay(t.due_date.v) >= Today
                 /\ ~StartsWith(human_label_and_dt(t.due_date.v, fromtimestamp(now)).label,
                                "overdue")
    /\ pc = "send" => ~Contains(digest.content, "overdue (")

\* C10 witness: late in the evening the upstream serves an exam task due in
\* the last millisecond of yesterday, and the digest is delivered without it.
C10_Witness ==
    /\ pc = "exit" /\ exit_code = 0
    /\ TimeOfDay(now) = LateEvening
    /\ digest.total_count > 0
    /\ \E t \in ServedRecords :
         /\ HasExamTag(t) /\ ValidDue(t)
         /\ t.due_date.v = Today * DayMs - TzOffsetMs - 1
         /\ ~InSection(t, digest.exams)

\* C9 as stated: the label is the one of delta_days = floor(due - now), the
\* whole days elapsed between now and the due instant.
C9_LabelOfElapsedDays ==
    pc = "returned" =>
        ret.label = LabelOfDelta((arg.due_ms - arg.now_ms) \div DayMs)

\* C9 amended: the label is the one of delta_days = the local calendar date of
\* the due instant minus the local calendar date of now.
C9_LabelOfCalendarDays ==
    pc = "returned" =>
        ret.label = LabelOfDelta(CalendarDay(arg.due_ms) - CalendarDay(arg.now_ms))

\* C9 witness: now is late in the day, the due instant is less than 24 hours
\* later on the next calendar day, and the label is "tomorrow".
C9_Witness ==
    /\ pc = "returned"
    /\ TimeOfDay(arg.now_ms) = LateEvening
    /\ arg.due_ms > arg.now_ms
    /\ arg.due_ms - arg.now_ms < DayMs
    /\ CalendarDay(arg.due_ms) = CalendarDay(arg.now_ms) + 1
    /\ ret.label = "tomorrow"

RECURSIVE Contents(_)
\* The posted contents, concatenated in send order.
Contents(ps) == IF ps = <<>> THEN "" ELSE ps[1].content \o Contents(Tail(ps))

Responded2xx(p) == 200 <= p.status /\ p.status <= 299

\* C3: while every post is answered 2xx, the posts carry at most 1900
\* characters each and spell out the text from its start, in order; when the
\* run ends with all of them answered 2xx there are exactly ceil(L/1900) of
\* them and they spell the whole text (4500 characters: 1900, 1900, 700).
C3_ChunksRebuildText ==
    LET text == digest.content
        L == Len(text)
        n == (L + 1899) \div 1900
    IN  (pc \in {"post", "exit"} /\ \A k \in 1..Len(posts) : Responded2xx(posts[k])) =>
            /\ Len(posts) <= n
            /\ \A k \in 1..Len(posts) : Len(posts[k].content) <= 1900
            /\ Contents(posts) = SubSeq(text, 1, Min(1900 * Len(posts), L))
            /\ (pc = "exit") =>
                  /\ Len(posts) = n
                  /\ Contents(posts) = text
                  /\ L = 4500 =>
                       [k \in 1..Len(posts) |-> Len(posts[k].content)] = <<1900, 1900, 700>>

\* C3 witness: a text of 4500 characters delivered in three posts.
C3_Witness ==
    /\ pc = "exit" /\ exit_code = 0
    /\ Len(digest.content) = 4500
    /\ Len(posts) = 3

\* C4: a post answered with a status outside 200..299 is the last post of the
\* run: the posts made are chunks 1..k of the text, each once and in order, all
\* but the last answered 2xx, and the run has ended with exit code 4 having
\* printed the failure and no success report.
C4_FailFast ==
    \A k \in 1..Len(posts) :
        (posts[k].status # NoResponse /\ ~Responded2xx(posts[k])) =>
            /\ k = Len(posts)
            /\ \A j \in 1..k :
                 posts[j].content =
                     SubSeq(digest.content, 1900 * (j - 1) + 1, Min(1900 * j, Len(digest.content)))
            /\ \A j \in 1..(k - 1) : Responded2xx(posts[j])
            /\ pc = "exit"
            /\ exit_code = 4
            /\ stdout = <<"Discord webhook failed:">>

\* C4 witness: the second of three chunks is answered 500.
C4_Witness ==
    /\ Len(parts) = 3
    /\ Len(posts) = 2
    /\ posts[2].status = 500
    /\ exit_code = 4

\* The category of a run's end, read off its last line of output.
LastLine == stdout[Len(stdout)]
ConfigurationError ==
    LastLine \in
        {"ERROR: Please set CLICKUP_TOKEN and DISCORD_WEBHOOK_URL (in environment or .env).",
         "ERROR: No Workspaces (teams) found for your token.",
         "Please set CLICKUP_TEAM_ID to one of the following IDs and rerun:"}
UpstreamFetchError ==
    LastLine \in
        {"HTTP error from ClickUp:", "Unexpected error fetching tasks:",
         "Traceback (most recent call last): get_teams"}
DeliveryError ==
    LastLine \in
        {"Discord webhook failed:", "Traceback (most recent call last): send_discord_message"}

\* The exit codes main() gives each category with sys.exit: 2 and 1 to a
\* configuration error, 3 to a fetch error, 4 to a delivery error.
CodesOf(category) ==
    CASE category = "configuration" -> {1, 2}
      [] category = "fetch" -> {3}
      [] category = "delivery" -> {4}

\* C5: a run that has ended printed something unless it delivered every
\* chunk; its exit code is 0 exactly when every chunk was posted and answered
\* 2xx, and otherwise a nonzero code of its own category, which no other
\* category uses.
C5_ExitCodePerCategory ==
    (pc = "exit") =>
        /\ stdout # <<>>
        /\ exit_code = 0 <=>
             (/\ parts # <<>>
              /\ Len(posts) = Len(parts)
              /\ \A k \in 1..Len(posts) : Responded2xx(posts[k]))
        /\ ConfigurationError => exit_code \in CodesOf("configuration")
        /\ UpstreamFetchError => exit_code \in CodesOf("fetch")
        /\ DeliveryError => exit_code \in CodesOf("delivery")
        /\ exit_code # 0 => (ConfigurationError \/ UpstreamFetchError \/ DeliveryError)

FetchFailed == \E i \in 1..Len(served) : served[i].kind # "ok"

\* C6: once a request of the task fetch has failed, nothing is ever posted:
\* the run has ended with a nonzero exit code, the tasks of the earlier pages
\* are gone, and no digest exists; and whenever something was posted, every
\* page was answered and the last one was short or empty.
C6_NoPostAfterFailedFetch ==
    /\ FetchFailed =>
         /\ posts = <<>> /\ parts = <<>>
         /\ tasks = <<>> /\ merged = <<>> /\ digest = NoDigest
         /\ pc = "exit" /\ exit_code # 0 /\ exit_code # NoExit
    /\ posts # <<>> =>
         /\ served # <<>>
         /\ \A i \in 1..Len(served) : served[i].kind = "ok"
         /\ Len(served[Len(served)].batch) < page_limit

\* C6 witness: the first page is full and holds a task in the window, the
\* request for the second page fails, and the run has ended.
C6_Witness ==
    /\ pc = "exit"
    /\ Len(served) = 2
    /\ served[1].kind = "ok"
    /\ KeepDue(served[1].batch, win.start_ms, win.end_ms_fetch) # <<>>
    /\ served[2].kind = "http"
    /\ exit_code = 3

\* The digest the builder makes of the same tasks when the summary service
\* answers "s", and the block that answer adds.
DigestWithSummary ==
    build_discord_message(merged, fromtimestamp(now), env.days_ahead, env.exam_days_ahead,
                          TRUE, Replies("s")).digest
SummaryBlock == Robot \o " **AI Summary**\ns\n" \o Rule \o "\n"

\* C7: no run ends in the summarizer; without GROQ_API_KEY no request is
\* ever made of the summary service; and a digest built with the summary
\* absent (no key, or the service failed) has the header count, the exam
\* section and the regular section of the digest with a summary, and its text
\* is that digest's text with the summary block taken out.
C7_SummarizerNeverAborts ==
    /\ \A i \in 1..Len(stdout) :
         stdout[i] # "Traceback (most recent call last): ai_summarize_tasks"
    /\ pc = "build" => exit_code = NoExit
    /\ ~env.groq_key => groq = <<>>
    /\ pc = "send" =>
         /\ ~env.groq_key => digest.ai_summary = None
         /\ digest.ai_summary = None =>
              LET ref == DigestWithSummary
              IN  /\ digest.total_count = ref.total_count
                  /\ digest.exams = ref.exams
                  /\ digest.others = ref.others
                  /\ ~Contains(digest.content, "AI Summary")
                  /\ IF merged = <<>> THEN digest.content = ref.content
                     ELSE \E i \in 1..Len(ref.content) :
                            /\ SubSeq(ref.content, i, i + Len(SummaryBlock) - 1) = SummaryBlock
                            /\ digest.content =
                                 SubSeq(ref.content, 1, i - 1)
                                 \o SubSeq(ref.content, i + Len(SummaryBlock), Len(ref.content))

\* C7 witness: a key is set, the request to the summary service was made and
\* failed, and the run has a digest of two sections without summary to send.
C7_Witness ==
    /\ pc = "send"
    /\ env.groq_key
    /\ groq # <<>>
    /\ digest.ai_summary = None
    /\ digest.exams # <<>>
    /\ digest.others # <<>>

ClaimKept(t, lo, hi) == t.due_date.k = "str" /\ lo <= t.due_date.v /\ t.due_date.v <= hi

RECURSIVE KeptOfPages(_, _, _)
KeptOfPages(pages, lo, hi) ==
    IF pages = <<>> THEN <<>>
    ELSE LET Keep(t) == ClaimKept(t, lo, hi)
         IN  SelectSeq(pages[1].batch, Keep) \o KeptOfPages(Tail(pages), lo, hi)

ShortOrEmpty(resp) == resp.kind = "ok" /\ Len(resp.batch) < 100

C8_Pages ==
    /\ reqs = [i \in 1..Len(reqs) |-> i - 1]
    /\ Len(served) = Len(reqs)
    /\ \A i \in 1..(Len(served) - 1) :
         served[i].kind = "ok" /\ Len(served[i].batch) >= 100
    /\ pc = "fetch" =>
         (served = <<>> \/ (served[Len(served)].kind = "ok" /\ ~ShortOrEmpty(served[Len(served)])))
    /\ pc = "returned" =>
         /\ ShortOrEmpty(served[Len(served)])
         /\ ret = Returned(KeptOfPages(served, win.start_ms, win.end_ms_fetch))
    /\ pc = "raised" => served[Len(served)].kind # "ok"

\* C8: the pages requested are 0, 1, 2, ... with none skipped or repeated;
\* every page before the last one requested was full, and no request follows
\* a page that is empty or shorter than 100; the call returns (or raises on a
\* failed request, never on a malformed due date), and what it returns is the
\* records of the pages, in page order, whose due date is a number within
\* [due_start_ms, due_end_ms].
C8_PagedFetch == []C8_Pages /\ <>(pc \in {"returned", "raised"})

\* C8 witness: the call returns after requesting three pages, one of which
\* held a record with a malformed due date next to one in the window.
C8_Witness ==
    /\ pc = "returned"
    /\ reqs = <<0, 1, 2>>
    /\ ret.tasks # <<>>
    /\ \E i \in 1..Len(served) :
         \E j \in 1..2 : j <= Len(served[i].batch) /\ served[i].batch[j].due_date.k = "bad"

==========================================================================
